---- MODULE Spec2Model ----
(***************************************************************************)
(* Linear SVM trained by sub-gradient descent, its confusion-matrix        *)
(* evaluator, the Platt-scaling targets and the ROC threshold sweep of     *)
(* Machine_Learning/svm/src/main.rs.                                       *)
(*                                                                         *)
(* f64 values are modelled as exact rationals <<n, d>> (d > 0, lowest      *)
(* terms; <<0, 0>> is NaN). The inputs are chosen so that every comparison *)
(* the source makes has the same outcome on its f64 values as on the exact *)
(* ones: with lr = 1/2 every value is computed without rounding, and with  *)
(* lr = 0.1 a model is followed through its first fit only.                *)
(***************************************************************************)
EXTENDS Integers, Sequences, FiniteSets, TLC

VARIABLES
    lr, lambda, n_iters, w, b, cls_map,   \* the fields of struct SVM
    pc,                                   \* "idle", "fit" inside SVM::fit's loops, "ret" at a return
    call,                                 \* the call in progress
    base,                                 \* whether w is still the one a baseline call left
    X,                                    \* the feature matrix passed to the call in progress
    iter, i,                              \* loop counters of SVM::fit
    log,                                  \* rows visited so far by the fit in progress
    out,                                  \* value the call in progress returns
    fits,                                 \* number of calls of SVM::fit so far
    cy, cyhat,                            \* the arguments of ConfusionMatrix::new
    cres, cm,                             \* how the call ended, and the matrix it returned
    py, pz, t_y, thr_i, tpr, fpr          \* platt_scaling targets and main's ROC sweep

svmVars  == <<lr, lambda, n_iters, w, b, cls_map, pc, call, base,
             X, iter, i, log, out, fits>>
cmVars   == <<cy, cyhat, cres, cm>>
rocVars  == <<py, pz, t_y, thr_i, tpr, fpr>>
vars     == <<svmVars, cmVars, rocVars>>

-----------------------------------------------------------------------------
(* Bounds of the model *)

MaxRows == 2      \* rows of a feature matrix passed to a call
MaxIters == 2     \* largest n_iters a model is constructed with
MaxFits == 2      \* calls of SVM::fit on one model
MaxLen == 3       \* length of the sequences given to ConfusionMatrix::new / platt_scaling
NThr == 4         \* points of the threshold linspace (N*2 in main)

-----------------------------------------------------------------------------
(* f64 arithmetic on exactly representable values *)

Abs(n) == IF n < 0 THEN -n ELSE n

RECURSIVE GCD(_, _)
GCD(m, n) == IF n = 0 THEN m ELSE GCD(n, m % n)

Norm(n, d) == LET g == GCD(Abs(n), d) IN <<n \div g, d \div g>>

Q(k) == <<k, 1>>
Add(p, q) == Norm(p[1] * q[2] + q[1] * p[2], p[2] * q[2])
Neg(p) == <<-p[1], p[2]>>
Sub(p, q) == Add(p, Neg(q))
Mul(p, q) == Norm(p[1] * q[1], p[2] * q[2])
Ge(p, q) == p[2] # 0 /\ q[2] # 0 /\ p[1] * q[2] >= q[1] * p[2]
Gt(p, q) == p[2] # 0 /\ q[2] # 0 /\ p[1] * q[2] > q[1] * p[2]

\* usize as f64 / usize as f64: 0/0 is NaN; no other division by 0 occurs here
NaN == <<0, 0>>
Div(n, d) == IF d = 0 THEN NaN ELSE Norm(n, d)

Min(m, n) == IF m < n THEN m ELSE n

RECURSIVE SumTo(_, _)
SumTo(f, n) == IF n = 0 THEN Q(0) ELSE Add(SumTo(f, n - 1), f[n])

\* Vec<f64>::dot
dot(u, v) == SumTo([k \in 1..Min(Len(u), Len(v)) |-> Mul(u[k], v[k])], Min(Len(u), Len(v)))

\* Vec<f64>::mul_s
mul_s(v, s) == [k \in 1..Len(v) |-> Mul(v[k], s)]

zeros(n) == [k \in 1..n |-> Q(0)]

QRow(x) == [k \in 1..Len(x) |-> Q(x[k])]

-----------------------------------------------------------------------------
(* Inputs *)

\* (lr, lambda) pairs a model is constructed with
Hypers == { << <<1, 10>>, <<0, 1>> >>, << <<1, 2>>, <<0, 1>> >>, << <<1, 2>>, <<1, 1>> >> }

\* feature rows, by column count
FeatureRows(c) == IF c = 1 THEN { <<1>> } ELSE { <<2, 0>>, <<-2, 0>> }
Cols == {1, 2}

SeqsOf(S, lo, hi) == UNION { [1..n -> S] : n \in lo..hi }

Matrices == UNION { SeqsOf(FeatureRows(c), 1, MaxRows) : c \in Cols }
LabelVals == {1, -1, 0}
Labels(n) == [1..n -> LabelVals]

\* a learning rate with an exact f64 representation; 0.1 has none, and the model
\* follows a model built with it through its first fit only, where every f64
\* comparison of the source still agrees with the exact value
Dyadic(q) == q[2] \in {1, 2, 4, 8}

row_count(M) == Len(M)
col_count(M) == Len(M[1])

-----------------------------------------------------------------------------
(* struct SVM *)

\* SVM::init_weight
init_weight(M) == zeros(col_count(M))

\* SVM::get_cls_map
get_cls_map(yy) == [k \in 1..Len(yy) |-> IF yy[k] = 1 THEN 1 ELSE -1]

\* mutant: the hinge constraint tested with a strict comparison
satisfy_constraint_strict(ww, bb, cmap, x, idx) ==
    Gt(Mul(Add(dot(ww, QRow(x)), bb), Q(cmap[idx])), Q(1))

\* SVM::satisfy_constraint
satisfy_constraint(ww, bb, cmap, x, idx) ==
    LET linear_model == Add(dot(ww, QRow(x)), bb)
        yi == cmap[idx]
    IN Ge(Mul(linear_model, Q(yi)), Q(1))

\* SVM::get_gradients: <<dw, db>>
get_gradients(ww, lam, cmap, constrain, x, idx) ==
    IF constrain
    THEN <<mul_s(ww, lam), Q(0)>>
    ELSE LET yi == cmap[idx]
         IN << [k \in 1..Min(Len(ww), Len(x)) |->
                    Sub(Mul(lam, ww[k]), Mul(Q(yi), Q(x[k])))],
               Neg(Q(yi)) >>

\* SVM::update_weight_bias: <<w, b>>
update_weight_bias(ww, bb, rate, dw, db) ==
    << [k \in 1..Min(Len(ww), Len(dw)) |-> Sub(ww[k], Mul(rate, dw[k]))],
       Sub(bb, Mul(rate, db)) >>

\* SVM::compute_decision_values
compute_decision_values(ww, bb, M) == [k \in 1..Len(M) |-> Add(dot(QRow(M[k]), ww), bb)]

\* mutant: a decision value of 0 classified as +1
predict_ge(ww, bb, M) ==
    LET estimate == compute_decision_values(ww, bb, M)
    IN [k \in 1..Len(estimate) |-> IF Ge(estimate[k], Q(0)) THEN 1 ELSE -1]

\* SVM::predict
predict(ww, bb, M) ==
    LET estimate == compute_decision_values(ww, bb, M)
    IN [k \in 1..Len(estimate) |-> IF Gt(estimate[k], Q(0)) THEN 1 ELSE -1]

\* mutant: baseline predicts without resetting the weight
baseline_keep(bb, M) == <<w, predict(w, bb, M)>>

\* SVM::baseline: <<w, returned predictions>>
baseline(bb, M) == <<zeros(col_count(M)), predict(zeros(col_count(M)), bb, M)>>

\* the margin y_i * (w.x_i + b) that satisfy_constraint compares with 1
margin(ww, bb, cmap, x, idx) == Mul(Add(dot(ww, QRow(x)), bb), Q(cmap[idx]))

-----------------------------------------------------------------------------
(* Evaluation state is not touched by the SVM calls *)

EvalIdle ==
    /\ cy = <<>> /\ cyhat = <<>> /\ cres = "none" /\ cm = <<>>
    /\ py = <<>> /\ pz = <<>> /\ t_y = <<>> /\ thr_i = 0 /\ tpr = <<>> /\ fpr = <<>>

\* SVM::new
SVM_new(rate, lam, n) ==
    /\ lr = rate /\ lambda = lam
    /\ n_iters = n
    /\ w = <<Q(0)>>
    /\ b = Q(0)
    /\ cls_map = <<0>>
    /\ pc = "idle"
    /\ call = "none" /\ base = FALSE
    /\ X = <<>>
    /\ iter = 0 /\ i = 0
    /\ log = <<>>
    /\ out = "none"
    /\ fits = 0

Init ==
    /\ \E h \in Hypers : \E n \in 0..MaxIters : SVM_new(h[1], h[2], n)
    /\ EvalIdle

\* mutant: fit also resets the bias
FitBegin_resetb ==
    /\ pc = "idle"
    /\ fits < MaxFits
    /\ fits = 0 \/ Dyadic(lr)
    /\ \E M \in Matrices : \E yy \in Labels(row_count(M)) :
          /\ X' = M
          /\ w' = init_weight(M)
          /\ cls_map' = get_cls_map(yy)
    /\ b' = Q(0)
    /\ pc' = "fit"
    /\ call' = "fit"
    /\ base' = FALSE
    /\ iter' = 0 /\ i' = 0
    /\ fits' = fits + 1
    /\ UNCHANGED <<lr, lambda, n_iters, log, out>>

\* SVM::fit, up to the first loop test: init_weight and get_cls_map
FitBegin ==
    /\ pc = "idle"
    /\ fits < MaxFits
    /\ fits = 0 \/ Dyadic(lr)
    /\ \E M \in Matrices : \E yy \in Labels(row_count(M)) :
          /\ X' = M
          /\ w' = init_weight(M)
          /\ cls_map' = get_cls_map(yy)
    /\ pc' = "fit"
    /\ call' = "fit"
    /\ base' = FALSE
    /\ iter' = 0 /\ i' = 0
    /\ fits' = fits + 1
    /\ UNCHANGED <<lr, lambda, n_iters, b, log, out>>

\* the loop body of SVM::fit applied to row number r (from 0) of X
RowStep(r) ==
    LET x == X[r + 1]
        constrain == satisfy_constraint(w, b, cls_map, x, r + 1)
        g == get_gradients(w, lambda, cls_map, constrain, x, r + 1)
        wb == update_weight_bias(w, b, lr, g[1], g[2])
    IN /\ w' = wb[1]
       /\ b' = wb[2]
       /\ log' = Append(log, [iter |-> iter, i |-> r,
                              margin |-> margin(w, b, cls_map, x, r + 1),
                              constrain |-> constrain])

\* mutant: the rows of a pass visited from the last to the first
FitRow_reversed ==
    /\ pc = "fit"
    /\ iter < n_iters
    /\ i < row_count(X)
    /\ RowStep(row_count(X) - 1 - i)
    /\ IF i + 1 < row_count(X)
       THEN i' = i + 1 /\ iter' = iter
       ELSE i' = 0 /\ iter' = iter + 1
    /\ UNCHANGED <<lr, lambda, n_iters, cls_map, pc, call, base, X, out, fits>>

\* mutant: the outer loop runs over 0..=n_iters
FitRow_inclusive ==
    /\ pc = "fit"
    /\ iter <= n_iters
    /\ i < row_count(X)
    /\ RowStep(i)
    /\ IF i + 1 < row_count(X)
       THEN i' = i + 1 /\ iter' = iter
       ELSE i' = 0 /\ iter' = iter + 1
    /\ UNCHANGED <<lr, lambda, n_iters, cls_map, pc, call, base, X, out, fits>>

\* one execution of the inner loop body of SVM::fit, for row i of pass iter
FitRow ==
    /\ pc = "fit"
    /\ iter < n_iters
    /\ i < row_count(X)
    /\ RowStep(i)
    /\ IF i + 1 < row_count(X)
       THEN i' = i + 1 /\ iter' = iter
       ELSE i' = 0 /\ iter' = iter + 1
    /\ UNCHANGED <<lr, lambda, n_iters, cls_map, pc, call, base, X, out, fits>>

\* SVM::fit leaves its loops when the outer range is exhausted
FitEnd ==
    /\ pc = "fit"
    /\ iter >= n_iters
    /\ pc' = "ret"
    /\ UNCHANGED <<lr, lambda, n_iters, w, b, cls_map, call, base, X, iter, i, log, out, fits>>

\* SVM::compute_decision_values(&X) on a model whose weight matches X's columns
ComputeDecisionValues ==
    /\ pc = "idle"
    /\ \E M \in Matrices :
          /\ col_count(M) = Len(w)
          /\ X' = M
          /\ out' = compute_decision_values(w, b, M)
    /\ pc' = "ret"
    /\ call' = "compute_decision_values"
    /\ UNCHANGED <<lr, lambda, n_iters, w, b, cls_map, base, iter, i, log, fits>>

\* SVM::predict(&X) on a model whose weight matches X's columns
Predict ==
    /\ pc = "idle"
    /\ \E M \in Matrices :
          /\ col_count(M) = Len(w)
          /\ X' = M
          /\ out' = predict(w, b, M)
    /\ pc' = "ret"
    /\ call' = "predict"
    /\ UNCHANGED <<lr, lambda, n_iters, w, b, cls_map, base, iter, i, log, fits>>

\* SVM::baseline(&X)
Baseline ==
    /\ pc = "idle"
    /\ \E M \in Matrices :
          /\ X' = M
          /\ w' = baseline(b, M)[1]
          /\ out' = baseline(b, M)[2]
    /\ pc' = "ret"
    /\ call' = "baseline"
    /\ base' = TRUE
    /\ UNCHANGED <<lr, lambda, n_iters, b, cls_map, iter, i, log, fits>>

\* the call returns to main: its arguments and locals go out of scope
Return ==
    /\ pc = "ret"
    /\ pc' = "idle"
    /\ call' = "none"
    /\ X' = <<>>
    /\ iter' = 0 /\ i' = 0
    /\ log' = <<>>
    /\ out' = "none"
    /\ UNCHANGED <<lr, lambda, n_iters, w, b, cls_map, base, fits>>

Next ==
    \/ FitBegin /\ UNCHANGED <<cmVars, rocVars>>
    \/ FitRow /\ UNCHANGED <<cmVars, rocVars>>
    \/ FitEnd /\ UNCHANGED <<cmVars, rocVars>>
    \/ ComputeDecisionValues /\ UNCHANGED <<cmVars, rocVars>>
    \/ Predict /\ UNCHANGED <<cmVars, rocVars>>
    \/ Baseline /\ UNCHANGED <<cmVars, rocVars>>
    \/ Return /\ UNCHANGED <<cmVars, rocVars>>

Spec == Init /\ [][Next]_vars

-----------------------------------------------------------------------------
(* struct ConfusionMatrix *)

Zip(yy, yh) == [k \in 1..Min(Len(yy), Len(yh)) |-> <<yy[k], yh[k]>>]

\* mutant: the last bucket repeats the test of the first, so it is never taken
Tally_nofn(c, pair) ==
    IF pair[1] = 1 /\ pair[2] = 1 THEN [c EXCEPT !.TP = @ + 1]
    ELSE IF pair[1] = -1 /\ pair[2] = -1 THEN [c EXCEPT !.TN = @ + 1]
    ELSE IF pair[1] = -1 /\ pair[2] = 1 THEN [c EXCEPT !.FP = @ + 1]
    ELSE c

\* the loop body of ConfusionMatrix::new: the counts after one more pair
Tally(c, pair) ==
    IF pair[1] = 1 /\ pair[2] = 1 THEN [c EXCEPT !.TP = @ + 1]
    ELSE IF pair[1] = -1 /\ pair[2] = -1 THEN [c EXCEPT !.TN = @ + 1]
    ELSE IF pair[1] = -1 /\ pair[2] = 1 THEN [c EXCEPT !.FP = @ + 1]
    ELSE IF pair[1] = 1 /\ pair[2] = -1 THEN [c EXCEPT !.FN = @ + 1]
    ELSE c

RECURSIVE TallyAll(_, _)
TallyAll(pairs, n) ==
    IF n = 0 THEN [TP |-> 0, TN |-> 0, FP |-> 0, FN |-> 0]
    ELSE Tally(TallyAll(pairs, n - 1), pairs[n])

\* ConfusionMatrix::new
ConfusionMatrix_new(yy, yh) == TallyAll(Zip(yy, yh), Len(Zip(yy, yh)))

\* mutant: the true-positive rate computed as the precision
tpr_ppv(c) == Div(c.TP, c.TP + c.FP)

\* ConfusionMatrix::tpr
tpr_of(c) == Div(c.TP, c.TP + c.FN)

\* ConfusionMatrix::fpr
fpr_of(c) == Div(c.FP, c.FP + c.TN)

\* a model that main has constructed and not yet used
SvmUnused == SVM_new(<<1, 2>>, Q(0), 1)

CalibIdle == py = <<>> /\ pz = <<>> /\ t_y = <<>> /\ thr_i = 0 /\ tpr = <<>> /\ fpr = <<>>

\* the two sequences handed to ConfusionMatrix::new: labels as the caller holds
\* them, predictions as predict or the threshold test produce them
InitCM ==
    /\ SvmUnused
    /\ CalibIdle
    /\ cy \in SeqsOf(LabelVals, 0, MaxLen)
    /\ cyhat \in SeqsOf({1, -1}, 0, MaxLen)
    /\ cres = "none" /\ cm = <<>>

\* ConfusionMatrix::new(&y, &y_hat): it has no failing path and returns Self
CMNew ==
    /\ cres = "none"
    /\ cres' = "Ok"
    /\ cm' = <<ConfusionMatrix_new(cy, cyhat)>>
    /\ UNCHANGED <<cy, cyhat>>

NextCM == CMNew /\ UNCHANGED <<svmVars, rocVars>>

SpecCM == InitCM /\ [][NextCM]_vars

-----------------------------------------------------------------------------
(* platt_scaling's targets and the ROC sweep of main *)

RECURSIVE Count(_, _, _)
Count(s, v, n) == IF n = 0 THEN 0 ELSE Count(s, v, n - 1) + (IF s[n] = v THEN 1 ELSE 0)

\* mutant: the positive target without its +1 smoothing
platt_targets_raw(yy) ==
    LET N_p == Count(yy, 1, Len(yy))
        N_n == Count(yy, -1, Len(yy))
        t_p == Norm(N_p, 2 + N_p)
        t_n == Norm(1, 2 + N_n)
    IN [k \in 1..Len(yy) |-> IF yy[k] = 1 THEN t_p ELSE t_n]

\* platt_scaling: the target column it hands to the optimizer
platt_targets(yy) ==
    LET N_p == Count(yy, 1, Len(yy))
        N_n == Count(yy, -1, Len(yy))
        t_p == Norm(1 + N_p, 2 + N_p)
        t_n == Norm(1, 2 + N_n)
    IN [k \in 1..Len(yy) |-> IF yy[k] = 1 THEN t_p ELSE t_n]

\* linspace(0, 1, n): its k-th point, k from 0
linspace(n, k) == Norm(k, n - 1)

\* z.fmap(|x| if x > t { 1 } else { -1 })
classify(z, t) == [k \in 1..Len(z) |-> IF Gt(z[k], t) THEN 1 ELSE -1]

\* values the sigmoid can return: 0 and 1 when exp overflows or underflows
ProbVals == { <<0, 1>>, <<1, 3>>, <<1, 2>>, <<1, 1>> }

\* the labels and the calibrated probabilities z that main holds after sigmoid
InitCalib ==
    /\ SvmUnused
    /\ cy = <<>> /\ cyhat = <<>> /\ cres = "none" /\ cm = <<>>
    /\ py \in SeqsOf(LabelVals, 1, MaxLen)
    /\ pz \in [1..Len(py) -> ProbVals]
    /\ t_y = <<>>
    /\ thr_i = 0 /\ tpr = <<>> /\ fpr = <<>>

\* platt_scaling(&y, &f_hat), up to the construction of the target column
PlattTargets ==
    /\ t_y = <<>>
    /\ t_y' = platt_targets(py)
    /\ UNCHANGED <<py, pz, thr_i, tpr, fpr>>

\* one iteration of main's loop over the thresholds
RocStep ==
    /\ t_y # <<>>
    /\ thr_i < NThr
    /\ LET t == linspace(NThr, thr_i)
           pred == classify(pz, t)
           c == ConfusionMatrix_new(py, pred)
       IN /\ tpr' = Append(tpr, tpr_of(c))
          /\ fpr' = Append(fpr, fpr_of(c))
    /\ thr_i' = thr_i + 1
    /\ UNCHANGED <<py, pz, t_y>>

NextCalib ==
    \/ PlattTargets /\ UNCHANGED <<svmVars, cmVars>>
    \/ RocStep /\ UNCHANGED <<svmVars, cmVars>>

SpecCalib == InitCalib /\ [][NextCalib]_vars

-----------------------------------------------------------------------------
(* Properties of the trainer, checked under Spec *)

Sign(bb) == IF Gt(bb, Q(0)) THEN 1 ELSE -1
RowDone == pc = "fit" /\ Len(log') = Len(log) + 1

\* the update rule of the specification, written out for one row
RefStep(ww, bb, x, yi, rate, lam) ==
    IF Ge(Mul(Q(yi), Add(dot(ww, QRow(x)), bb)), Q(1))
    THEN << [k \in 1..Len(ww) |-> Sub(ww[k], Mul(Mul(rate, lam), ww[k]))], bb >>
    ELSE << [k \in 1..Len(ww) |->
                Sub(ww[k], Mul(rate, Sub(Mul(lam, ww[k]), Mul(Q(yi), Q(x[k])))))],
            Add(bb, Mul(rate, Q(yi))) >>

\* C1: every per-row step of fit takes (w, b) to the reference rule's result for
\* the row's mapped label y in {+1,-1}: margin >= 1 gives w - lr*lambda*w and b
\* unchanged, otherwise w - lr*(lambda*w - y*x) and b + lr*y; a margin of exactly
\* 1 takes the satisfied branch.
C1_StepRule ==
    [][RowDone =>
          LET r == log'[Len(log')].i + 1
              e == log'[Len(log')]
          IN /\ cls_map[r] \in {1, -1}
             /\ <<w', b'>> = RefStep(w, b, X[r], cls_map[r], lr, lambda)
             /\ e.margin = Q(1) => (e.constrain /\ b' = b)]_vars

\* a fit has taken the satisfied branch on a margin of exactly 1, after a
\* violated row, with a non-zero weight and regularisation
C1_Witness ==
    /\ pc = "fit"
    /\ lambda # Q(0)
    /\ \E k \in 1..Len(log) : log[k].margin = Q(1) /\ log[k].constrain
    /\ \E k \in 1..Len(log) : ~log[k].constrain
    /\ \E k \in 1..Len(w) : w[k] # Q(0)

ScenarioX == << <<2, 0>>, <<-2, 0>> >>
Scenario ==
    /\ call = "fit" /\ fits = 1
    /\ lr = <<1, 10>> /\ lambda = Q(0) /\ n_iters = 1
    /\ X = ScenarioX /\ cls_map = <<1, -1>>

\* C2: fit runs n_iters passes over the rows in index order, each row's update
\* applied before the next row's margin is computed. In the scenario (features
\* [[2,0],[-2,0]], labels [+1,-1], lr 0.1, lambda 0, one pass, fresh model) both
\* rows are violated, the state after row 1 is w=[0.2,0], b=0.1, row 2 is
\* evaluated against it (margin 0.3), the final state is w=[0.4,0], b=0 and
\* both final margins exceed the initial margin 0.
C2_RowOrder ==
    /\ call = "fit" =>
          /\ \A k \in 1..Len(log) :
                /\ log[k].i = (k - 1) % row_count(X)
                /\ log[k].iter = (k - 1) \div row_count(X)
          /\ pc = "ret" => Len(log) = n_iters * row_count(X)
    /\ Scenario =>
          /\ Len(log) = 0 => (w = <<Q(0), Q(0)>> /\ b = Q(0))
          /\ Len(log) >= 1 => (log[1].margin = Q(0) /\ ~log[1].constrain)
          /\ Len(log) = 1 => (w = << <<1, 5>>, Q(0) >> /\ b = <<1, 10>>)
          /\ Len(log) >= 2 => (log[2].margin = <<3, 10>> /\ ~log[2].constrain)
          /\ Len(log) = 2 =>
                /\ w = << <<2, 5>>, Q(0) >> /\ b = Q(0)
                /\ \A k \in 1..2 : Gt(margin(w, b, cls_map, X[k], k), Q(0))

\* the scenario's fit has visited both rows and is about to return
C2_Witness == Scenario /\ pc = "ret" /\ Len(log) = 2 /\ w = << <<2, 5>>, Q(0) >>

\* C5: baseline sets w to zeros(columns of X), leaves bias and hyperparameters
\* alone, takes no training step and returns one label for every row, +1 if
\* bias > 0 and -1 otherwise (-1 on a model never fitted); a later predict
\* with no fit in between returns that single label too.
C5_Baseline ==
    [][/\ (pc = "idle" /\ call' = "baseline") =>
            /\ w' = zeros(col_count(X'))
            /\ <<b', lr', lambda', n_iters'>> = <<b, lr, lambda, n_iters>>
            /\ <<log', fits', cls_map'>> = <<log, fits, cls_map>>
            /\ Len(out') = row_count(X')
            /\ \A k \in 1..Len(out') : out'[k] = Sign(b)
            /\ fits = 0 => \A k \in 1..Len(out') : out'[k] = -1
       /\ (pc = "idle" /\ base /\ call' = "predict") =>
            /\ Len(out') = row_count(X')
            /\ \A k \in 1..Len(out') : out'[k] = Sign(b)]_vars

\* after a fit that left a positive bias, baseline and then predict were called:
\* the predict returned +1 for each of several rows
C5_Witness ==
    /\ pc = "ret" /\ call = "predict" /\ base
    /\ fits >= 1 /\ Gt(b, Q(0))
    /\ row_count(X) >= 2
    /\ \A k \in 1..Len(out) : out[k] = 1

\* C6: when fit returns on a model constructed with n_iters = 0, w is all-zero
\* with one entry per feature column, bias is 0, and predict on the features
\* gives what baseline gives.
C6_ZeroIterations ==
    (n_iters = 0 /\ call = "fit" /\ pc = "ret") =>
        /\ w = zeros(col_count(X))
        /\ b = Q(0)
        /\ predict(w, b, X) = baseline(b, X)[2]

\* a second fit with n_iters = 0 returns, on a two-column matrix
C6_Witness ==
    /\ n_iters = 0 /\ call = "fit" /\ pc = "ret"
    /\ fits = 2 /\ col_count(X) = 2 /\ row_count(X) = 2

Decision(k) == Add(dot(w, QRow(X[k])), b)

\* C7: predict returns one entry per row, +1 where w.x + b > 0 and -1 elsewhere,
\* so a decision value of exactly 0 gives -1 and no entry is outside {+1,-1}.
C7_Predict ==
    (pc = "ret" /\ call = "predict") =>
        /\ Len(out) = row_count(X)
        /\ \A k \in 1..Len(out) :
              /\ out[k] \in {1, -1}
              /\ out[k] = 1 <=> Decision(k)[1] > 0
              /\ Decision(k) = Q(0) => out[k] = -1

\* a trained model (non-zero weight) predicted a row whose decision value is
\* exactly 0 as -1 and another row as +1
C7_Witness ==
    /\ pc = "ret" /\ call = "predict"
    /\ \E k \in 1..Len(w) : w[k] # Q(0)
    /\ \E k \in 1..Len(out) : Decision(k) = Q(0) /\ out[k] = -1
    /\ \E k \in 1..Len(out) : out[k] = 1

\* C10: fit zeroes w before its first row and keeps the bias, so the first margin
\* of a fit is y*b for the bias left by the earlier calls; the bias changes only
\* in a violated row step of fit, never in predict, compute_decision_values,
\* baseline or a satisfied row.
C10_BiasFrame ==
    [][/\ b' # b => (RowDone /\ ~log'[Len(log')].constrain)
       /\ (pc = "idle" /\ call' = "fit") => (w' = zeros(col_count(X')) /\ b' = b)
       /\ (RowDone /\ Len(log) = 0) =>
            /\ w = zeros(col_count(X))
            /\ log'[1].margin = Mul(Q(cls_map[1]), b)]_vars

\* the first row of a second fit was evaluated with a non-zero bias left by
\* the first fit
C10_Witness ==
    /\ pc = "fit" /\ fits = 2 /\ Len(log) = 1
    /\ log[1].margin # Q(0)

-----------------------------------------------------------------------------
(* Properties of the evaluator, checked under SpecCM *)

Total(c) == c.TP + c.TN + c.FP + c.FN
PlusMinus == {1, -1}
Paired == 1..Min(Len(cy), Len(cyhat))

\* C3 as stated: the four counts of every confusion matrix add up to the length
\* of the paired sequences.
C3_TotalIsLength == cres = "Ok" => Total(cm[1]) = Min(Len(cy), Len(cyhat))

\* C3, amended: the four counts add up to the number of pairs whose label and
\* prediction are both +1 or -1, which is the paired length when every paired
\* value is +1 or -1; no pair is counted twice.
C3_TotalIsCountedPairs ==
    cres = "Ok" =>
        /\ Total(cm[1]) = Cardinality({k \in Paired : cy[k] \in PlusMinus /\ cyhat[k] \in PlusMinus})
        /\ (\A k \in Paired : cy[k] \in PlusMinus /\ cyhat[k] \in PlusMinus)
              => Total(cm[1]) = Min(Len(cy), Len(cyhat))

\* a matrix built from three +1/-1 pairs that fall into three different buckets
C3_Witness ==
    /\ cres = "Ok"
    /\ Len(cy) = 3 /\ Len(cyhat) = 3
    /\ \A k \in Paired : cy[k] \in PlusMinus /\ cyhat[k] \in PlusMinus
    /\ cm[1].TP = 1 /\ cm[1].FP = 1 /\ cm[1].FN = 1

\* C4 as stated: sequences of different lengths make ConfusionMatrix::new fail
\* with LengthMismatch and produce no confusion matrix.
C4_LengthMismatch ==
    (cres # "none" /\ Len(cy) # Len(cyhat)) => (cres = "LengthMismatch" /\ cm = <<>>)

-----------------------------------------------------------------------------
(* Properties of the calibration stage, checked under SpecCalib *)

BothClasses == (\E k \in 1..Len(py) : py[k] = 1) /\ (\E k \in 1..Len(py) : py[k] = -1)
StrictProbs == \A k \in 1..Len(pz) : Gt(pz[k], Q(0)) /\ Gt(Q(1), pz[k])
InUnit(q) == q # NaN /\ Ge(q, Q(0)) /\ Ge(Q(1), q)

\* C8: with both classes among the labels and every probability strictly
\* between 0 and 1, the sweep records (fpr,tpr) = (1,1) at threshold 0 and (0,0)
\* at threshold 1, every recorded rate lies in [0,1], and neither rate ever
\* increases from one threshold to the next.
C8_RocSweep ==
    (BothClasses /\ StrictProbs) =>
        /\ Len(tpr) = thr_i /\ Len(fpr) = thr_i
        /\ thr_i >= 1 => (tpr[1] = Q(1) /\ fpr[1] = Q(1))
        /\ thr_i = NThr => (tpr[NThr] = Q(0) /\ fpr[NThr] = Q(0))
        /\ \A k \in 1..thr_i : InUnit(tpr[k]) /\ InUnit(fpr[k])
        /\ \A k \in 1..(thr_i - 1) : Ge(tpr[k], tpr[k + 1]) /\ Ge(fpr[k], fpr[k + 1])

\* a complete sweep over such data in which the true-positive rate takes a
\* value strictly between its extremes
C8_Witness ==
    /\ BothClasses /\ StrictProbs
    /\ thr_i = NThr
    /\ \E k \in 1..thr_i : Gt(tpr[k], Q(0)) /\ Gt(Q(1), tpr[k])
    /\ \E k \in 1..(thr_i - 1) : Gt(fpr[k], fpr[k + 1])

PosCount == Cardinality({k \in 1..Len(py) : py[k] = 1})
NegCount == Cardinality({k \in 1..Len(py) : py[k] = -1})

\* C9: every example labelled +1 gets the target (N_pos+1)/(N_pos+2) and every
\* example labelled -1 gets 1/(N_neg+2); every assigned target lies strictly
\* between 0 and 1 and a +1 example's target exceeds a -1 example's.
C9_PlattTargets ==
    t_y # <<>> =>
        /\ Len(t_y) = Len(py)
        /\ \A k \in 1..Len(py) :
              /\ py[k] = 1 => t_y[k][1] * (PosCount + 2) = (PosCount + 1) * t_y[k][2]
              /\ py[k] = -1 => t_y[k][1] * (NegCount + 2) = t_y[k][2]
              /\ 0 < t_y[k][1] /\ t_y[k][1] < t_y[k][2]
        /\ \A j, k \in 1..Len(py) : (py[j] = 1 /\ py[k] = -1) => Gt(t_y[j], t_y[k])

\* targets assigned for labels that hold a +1, a -1 and a value that is neither
C9_Witness ==
    /\ t_y # <<>>
    /\ \E j, k, l \in 1..Len(py) : py[j] = 1 /\ py[k] = -1 /\ py[l] = 0

====
